---- MODULE Spec2Model ----
(***************************************************************************)
(* Sake Sensei - the recommendation engine                                 *)
(* (backend/lambdas/recommendation/algorithm.py), the recommendation       *)
(* handler, the error wrapper of the handlers and the creation of a        *)
(* tasting record.                                                         *)
(*                                                                         *)
(* Numbers.  The engine computes scores in floating point.  Every score is *)
(* kept here as an integer number of units, Scale units to one score       *)
(* point, so that 100 - (sum / 3) * 25, the weights 0.6 / 0.2 / 0.1 and    *)
(* round(score, 2) are all exact.  A rating is an integer number of        *)
(* thousandths (4500 is 4.5).                                              *)
(*                                                                         *)
(* Dictionaries.  A Python dict is a record; dict.get(k, default) is Get,  *)
(* which looks at the record's DOMAIN, so a missing optional field is      *)
(* really missing.                                                         *)
(***************************************************************************)
EXTENDS Integers, Sequences, FiniteSets, TLC

VARIABLES sake_table, all_sake, preferences, tasting_history, limit,
          result, previous, sake, value, pc, event, response,
          table_calls, raised

vars == <<sake_table, all_sake, preferences, tasting_history, limit,
          result, previous, sake, value, pc, event, response,
          table_calls, raised>>

(***************************************************************************)
(* Bounds of the model                                                     *)
(***************************************************************************)
MaxCatalog == 3

MaxHistory == 1

MaxLimit == 2

(***************************************************************************)
(* Fixed point                                                             *)
(***************************************************************************)
\* thirds of a ten-thousandth of a point
Scale == 3 * 10000

Pt(n) == n * Scale

RatingUnit == Scale \div 1000

Abs(x) == IF x < 0 THEN -x ELSE x

Min(a, b) == IF a <= b THEN a ELSE b

Max(a, b) == IF a >= b THEN a ELSE b

Range(s) == {s[i] : i \in 1..Len(s)}

\* dict.get(k, default)
Get(d, k, default) == IF k \in DOMAIN d THEN d[k] ELSE default

\* round(x, 2): to the nearest hundredth of a point, a tie going to the
\* even hundredth
Round2(x) ==
    LET h == Scale \div 100
        q == x \div h
        r == x % h
    IN  IF 2 * r < h THEN q * h
        ELSE IF 2 * r > h THEN (q + 1) * h
        ELSE IF q % 2 = 0 THEN q * h ELSE (q + 1) * h

(***************************************************************************)
(* The data the model runs on                                              *)
(***************************************************************************)
TasteValues == 1..5

Categories ==
    {"junmai", "honjozo", "futsushu", "ginjo", "daiginjo",
     "junmai_daiginjo", "koshu", ""}

ExperienceLevels == {"beginner", "intermediate", "advanced", "expert"}

Item(id, nm, brewery, cat, price, sw, ac, ri, rating) ==
    [sake_id |-> id, name |-> nm, brewery_id |-> brewery, category |-> cat,
     price |-> price, sweetness |-> sw, acidity |-> ac, richness |-> ri,
     rating |-> rating]

\* The sake the catalog is drawn from.  S1 and S2 tie for an intermediate
\* drinker with neutral taste; S4 is a perfect match and S3 the worst one
\* for an advanced drinker who likes <<5, 5, 1>>; S5 has none of the
\* optional fields.
SakeUniverse ==
    { Item("S1", "Dassai", "B1", "junmai", 1500, 3, 3, 3, 4500),
      Item("S2", "Kubota", "B2", "daiginjo", 5000, 3, 3, 3, 4500),
      Item("S3", "Hakkaisan", "B1", "honjozo", 800, 1, 1, 5, 0),
      Item("S4", "Juyondai", "B3", "koshu", 3000, 5, 5, 1, 5000),
      [sake_id |-> "S5", name |-> "Kikusui", brewery_id |-> "B2",
       category |-> "ginjo"] }

SakeTables == {t \in SUBSET SakeUniverse : Cardinality(t) <= MaxCatalog}

HistoryEntries ==
    { [sake_id |-> "S1", brewery_id |-> "B1"],
      [sake_id |-> "S9", brewery_id |-> "B2"] }

Histories == UNION {[1..n -> HistoryEntries] : n \in 0..MaxHistory}

Limits == 1..MaxLimit

Profile(sw, ac, ri, lv) ==
    [sweetness |-> sw, acidity |-> ac, richness |-> ri, experience_level |-> lv]

\* Profiles without a filter: every experience level, two tastes.
PlainProfiles ==
    { Profile(3, 3, 3, "beginner"), Profile(3, 3, 3, "intermediate"),
      Profile(5, 5, 1, "advanced"), Profile(5, 5, 1, "expert") }

\* Profiles with a budget and a category list.
FilterProfiles ==
    {[sweetness |-> 3, acidity |-> 3, richness |-> 3,
      experience_level |-> "intermediate", budget |-> b, categories |-> c] :
        b \in {1000, 3000}, c \in {<<>>, <<"junmai", "daiginjo">>}}

\* JSON null (Python's None) in the place of an amount: a value apart from
\* every amount, which are all 0 or more
NullAmount == 0 - 1

\* Profiles with nothing but a budget, and that budget 0 or null.
SparseProfiles == {[budget |-> 0], [budget |-> NullAmount]}

PrefProfiles == PlainProfiles \cup FilterProfiles \cup SparseProfiles

\* Table.scan() gives the items in an order the table does not promise.
ScanOrders(t) ==
    {f \in [1..Cardinality(t) -> t] : \A i, j \in DOMAIN f : f[i] = f[j] => i = j}

(***************************************************************************)
(* RecommendationEngine: the factor scorers                                *)
(***************************************************************************)
\* a faulty variant: the average difference scaled by 20, not 25
_calculate_taste_match_scale20(s, prefs) ==
    LET d == Abs(Get(prefs, "sweetness", 3) - Get(s, "sweetness", 3))
             + Abs(Get(prefs, "acidity", 3) - Get(s, "acidity", 3))
             + Abs(Get(prefs, "richness", 3) - Get(s, "richness", 3))
    IN  Max(Pt(100) - (Pt(d) \div 3) * 20, 0)

\* _calculate_taste_match: 100 - avg_diff * 25, not below 0
_calculate_taste_match(s, prefs) ==
    LET pref_sweetness == Get(prefs, "sweetness", 3)
        pref_acidity == Get(prefs, "acidity", 3)
        pref_richness == Get(prefs, "richness", 3)
        sake_sweetness == Get(s, "sweetness", 3)
        sake_acidity == Get(s, "acidity", 3)
        sake_richness == Get(s, "richness", 3)
        sweetness_diff == Abs(pref_sweetness - sake_sweetness)
        acidity_diff == Abs(pref_acidity - sake_acidity)
        richness_diff == Abs(pref_richness - sake_richness)
        avg_diff == (Pt(sweetness_diff + acidity_diff + richness_diff)) \div 3
        score == Pt(100) - avg_diff * 25
    IN  Max(score, 0)

beginner_categories == <<"junmai", "honjozo", "futsushu">>

advanced_categories == <<"daiginjo", "junmai_daiginjo", "koshu">>

\* a faulty variant: the two category lists taken for one another
_calculate_experience_match_swapped(s, prefs) ==
    LET experience_level == Get(prefs, "experience_level", "beginner")
        sake_category == Get(s, "category", "")
    IN  IF experience_level = "beginner"
        THEN (IF sake_category \in Range(advanced_categories)
              THEN Pt(100) ELSE Pt(50))
        ELSE IF experience_level = "intermediate"
        THEN Pt(80)
        ELSE IF experience_level = "advanced"
        THEN (IF sake_category \in Range(beginner_categories)
              THEN Pt(100) ELSE Pt(70))
        ELSE Pt(50)

\* _calculate_experience_match
_calculate_experience_match(s, prefs) ==
    LET experience_level == Get(prefs, "experience_level", "beginner")
        sake_category == Get(s, "category", "")
    IN  IF experience_level = "beginner"
        THEN (IF sake_category \in Range(beginner_categories)
              THEN Pt(100) ELSE Pt(50))
        ELSE IF experience_level = "intermediate"
        THEN Pt(80)
        ELSE IF experience_level = "advanced"
        THEN (IF sake_category \in Range(advanced_categories)
              THEN Pt(100) ELSE Pt(70))
        ELSE Pt(50)

\* a faulty variant: the tasted sake looked at, not their breweries
_calculate_diversity_score_by_sake(s, history) ==
    IF history = <<>>
    THEN Pt(100)
    ELSE LET tried == {Get(history[i], "sake_id", "None") : i \in 1..Len(history)}
         IN  IF Get(s, "sake_id", "None") \notin tried THEN Pt(100) ELSE Pt(50)

\* _calculate_diversity_score
_calculate_diversity_score(s, history) ==
    IF history = <<>>
    THEN Pt(100)
    ELSE LET tried_breweries == {Get(history[i], "brewery_id", "None") :
                                    i \in 1..Len(history)}
         IN  IF Get(s, "brewery_id", "None") \notin tried_breweries
             THEN Pt(100) ELSE Pt(50)

\* a faulty variant: a missing rating counted as 0
popularity_score_default0(s) == Get(s, "rating", 0) * RatingUnit * 20

\* sake.get("rating", 3.0) * 20
popularity_score(s) == Get(s, "rating", 3000) * RatingUnit * 20

\* a faulty variant: the popularity term added unweighted and the
\* sum returned as it is
_calculate_score_unweighted(s, prefs, history) ==
    (_calculate_taste_match(s, prefs) * 6) \div 10
    + (_calculate_experience_match(s, prefs) * 2) \div 10
    + _calculate_diversity_score(s, history) \div 10
    + popularity_score(s)

\* a faulty variant: the weights of taste and experience taken for one another
_calculate_score_weights_swapped(s, prefs, history) ==
    Min((_calculate_taste_match(s, prefs) * 2) \div 10
        + (_calculate_experience_match(s, prefs) * 6) \div 10
        + _calculate_diversity_score(s, history) \div 10
        + popularity_score(s) \div 10, Pt(100))

\* _calculate_score: the weighted sum, not above 100
_calculate_score(s, prefs, history) ==
    LET taste_score == _calculate_taste_match(s, prefs)
        experience_score == _calculate_experience_match(s, prefs)
        diversity_score == _calculate_diversity_score(s, history)
        score == (taste_score * 6) \div 10
                 + (experience_score * 2) \div 10
                 + diversity_score \div 10
                 + popularity_score(s) \div 10
    IN  Min(score, Pt(100))

\* "、".join(reasons)
RECURSIVE Join(_)
Join(reasons) ==
    IF Len(reasons) = 1 THEN reasons[1]
    ELSE reasons[1] \o ", " \o Join(Tail(reasons))

\* a faulty variant: the generic phrase appended whatever was found
_generate_match_reason_always_default(s, prefs) ==
    LET sake_sweetness == Get(s, "sweetness", 3)
        taste == IF Abs(Get(prefs, "sweetness", 3) - sake_sweetness) <= 1
                 THEN (IF sake_sweetness <= 2 THEN <<"dry and crisp">>
                       ELSE IF sake_sweetness >= 4 THEN <<"sweet and mellow">>
                       ELSE <<"well balanced">>)
                 ELSE <<>>
        category == Get(s, "category", "")
        cat == IF category \in {"daiginjo", "junmai_daiginjo"}
               THEN <<"fragrant aroma">>
               ELSE IF category = "junmai" THEN <<"rice umami">>
               ELSE <<>>
    IN  Join(taste \o cat \o <<"recommended pick">>)

\* a faulty variant: the sweetness rule only for equal values
_generate_match_reason_strict(s, prefs) ==
    LET sake_sweetness == Get(s, "sweetness", 3)
        taste == IF Abs(Get(prefs, "sweetness", 3) - sake_sweetness) < 1
                 THEN (IF sake_sweetness <= 2 THEN <<"dry and crisp">>
                       ELSE IF sake_sweetness >= 4 THEN <<"sweet and mellow">>
                       ELSE <<"well balanced">>)
                 ELSE <<>>
        category == Get(s, "category", "")
        cat == IF category \in {"daiginjo", "junmai_daiginjo"}
               THEN <<"fragrant aroma">>
               ELSE IF category = "junmai" THEN <<"rice umami">>
               ELSE <<>>
        reasons == taste \o cat
    IN  IF reasons = <<>> THEN "recommended pick" ELSE Join(reasons)

\* _generate_match_reason.  The phrases are the source's Japanese ones in
\* English: dry and crisp, sweet and mellow, well balanced, fragrant aroma,
\* rice umami, recommended pick; the separator is the source's comma.
_generate_match_reason(s, prefs) ==
    LET pref_sweetness == Get(prefs, "sweetness", 3)
        sake_sweetness == Get(s, "sweetness", 3)
        taste == IF Abs(pref_sweetness - sake_sweetness) <= 1
                 THEN (IF sake_sweetness <= 2 THEN <<"dry and crisp">>
                       ELSE IF sake_sweetness >= 4 THEN <<"sweet and mellow">>
                       ELSE <<"well balanced">>)
                 ELSE <<>>
        category == Get(s, "category", "")
        cat == IF category \in {"daiginjo", "junmai_daiginjo"}
               THEN <<"fragrant aroma">>
               ELSE IF category = "junmai" THEN <<"rice umami">>
               ELSE <<>>
        reasons == taste \o cat
    IN  IF reasons = <<>> THEN "recommended pick" ELSE Join(reasons)

(***************************************************************************)
(* RecommendationEngine.recommend                                          *)
(***************************************************************************)
\* if budget: neither None nor 0
Truthy(amount) == amount # NullAmount /\ amount # 0

\* a faulty variant: the comparison with the budget turned round
BudgetFilter_reversed(xs, prefs) ==
    LET budget == Get(prefs, "budget", NullAmount)
        keep(s) == Get(s, "price", 0) >= budget
    IN  IF Truthy(budget) THEN SelectSeq(xs, keep) ELSE xs

\* a faulty variant: the filter applied to every budget that is not None,
\* a budget of 0 as well
BudgetFilter_unless_none(xs, prefs) ==
    LET budget == Get(prefs, "budget", NullAmount)
        keep(s) == Get(s, "price", 0) <= budget
    IN  IF budget # NullAmount THEN SelectSeq(xs, keep) ELSE xs

\* the budget filter
BudgetFilter(xs, prefs) ==
    LET budget == Get(prefs, "budget", NullAmount)
        keep(s) == Get(s, "price", 0) <= budget
    IN  IF Truthy(budget) THEN SelectSeq(xs, keep) ELSE xs

\* a faulty variant: the filter applied to an empty list as well
CategoryFilter_always(xs, prefs) ==
    LET preferred_categories == Get(prefs, "categories", <<>>)
        keep(s) == Get(s, "category", "None") \in Range(preferred_categories)
    IN  SelectSeq(xs, keep)

\* the category filter
CategoryFilter(xs, prefs) ==
    LET preferred_categories == Get(prefs, "categories", <<>>)
        keep(s) == Get(s, "category", "None") \in Range(preferred_categories)
    IN  IF preferred_categories # <<>> THEN SelectSeq(xs, keep) ELSE xs

\* a faulty variant: the tasted sake kept, the others dropped
HistoryFilter_inverted(xs, history) ==
    LET tasted_sake_ids == {Get(history[i], "sake_id", "None") :
                                i \in 1..Len(history)}
        keep(s) == Get(s, "sake_id", "None") \in tasted_sake_ids
    IN  SelectSeq(xs, keep)

\* the already-tasted filter
HistoryFilter(xs, history) ==
    LET tasted_sake_ids == {Get(history[i], "sake_id", "None") :
                                i \in 1..Len(history)}
        keep(s) == Get(s, "sake_id", "None") \notin tasted_sake_ids
    IN  SelectSeq(xs, keep)

\* _get_all_sake: the scan's items, [] when the scan raises
_get_all_sake(scanned) == IF scanned.ok THEN scanned.Items ELSE <<>>

candidate_sake(scan, prefs, history) ==
    HistoryFilter(CategoryFilter(BudgetFilter(scan, prefs), prefs), history)

\* the record appended to scored_sake
ScoredRecord(s, prefs, history) ==
    [sake_id |-> s.sake_id,
     name |-> s.name,
     brewery_id |-> s.brewery_id,
     category |-> s.category,
     price |-> Get(s, "price", 0),
     sweetness |-> Get(s, "sweetness", 3),
     acidity |-> Get(s, "acidity", 3),
     richness |-> Get(s, "richness", 3),
     score |-> Round2(_calculate_score(s, prefs, history)),
     match_reason |-> _generate_match_reason(s, prefs)]

\* a faulty variant: a candidate loses a point for every candidate scored
\* before it
scored_sake_by_position(scan, prefs, history) ==
    LET c == candidate_sake(scan, prefs, history)
    IN  [i \in 1..Len(c) |->
            [ScoredRecord(c[i], prefs, history) EXCEPT !.score = @ - Pt(i - 1)]]

scored_sake(scan, prefs, history) ==
    LET c == candidate_sake(scan, prefs, history)
    IN  [i \in 1..Len(c) |-> ScoredRecord(c[i], prefs, history)]

\* a faulty variant: no sort at all
SortByScoreDesc_unsorted(xs) == xs

\* a faulty variant: a sort that turns equal scores round
RECURSIVE SortByScoreDesc_ties_reversed(_)
SortByScoreDesc_ties_reversed(xs) ==
    IF xs = <<>> THEN <<>>
    ELSE LET sorted == SortByScoreDesc_ties_reversed(SubSeq(xs, 1, Len(xs) - 1))
             x == xs[Len(xs)]
             k == Cardinality({i \in 1..Len(sorted) : sorted[i].score > x.score})
         IN  SubSeq(sorted, 1, k) \o <<x>> \o SubSeq(sorted, k + 1, Len(sorted))

\* list.sort(key=score, reverse=True): stable, equal scores keep their
\* order.  A record comes after the records of a higher score and after the
\* earlier records of its own score.
SortByScoreDesc(xs) ==
    LET n == Len(xs)
        place == [i \in 1..n |->
                     Cardinality({j \in 1..n :
                                     \/ xs[j].score > xs[i].score
                                     \/ xs[j].score = xs[i].score /\ j < i}) + 1]
    IN  [k \in 1..n |-> xs[CHOOSE i \in 1..n : place[i] = k]]

\* a faulty variant: one record too many
Slice_plus_one(xs, n) == SubSeq(xs, 1, Min(n + 1, Len(xs)))

\* a faulty variant: the last n records, not the first
Slice_tail(xs, n) == SubSeq(xs, Max(Len(xs) - n, 0) + 1, Len(xs))

\* xs[:n]
Slice(xs, n) ==
    IF n >= 0 THEN SubSeq(xs, 1, Min(n, Len(xs)))
    ELSE SubSeq(xs, 1, Max(Len(xs) + n, 0))

\* a faulty variant: sorted without reverse=True
RECURSIVE SortByScoreAsc(_)
SortByScoreAsc(xs) ==
    IF xs = <<>> THEN <<>>
    ELSE LET sorted == SortByScoreAsc(SubSeq(xs, 1, Len(xs) - 1))
             x == xs[Len(xs)]
             k == Cardinality({i \in 1..Len(sorted) : sorted[i].score <= x.score})
         IN  SubSeq(sorted, 1, k) \o <<x>> \o SubSeq(sorted, k + 1, Len(sorted))

recommend_ascending(scan, prefs, history, n) ==
    Slice(SortByScoreAsc(scored_sake(scan, prefs, history)), n)

\* a faulty variant: an engine that remembers what it returned last and
\* treats it as tasted
recommend_remembering(scan, prefs, history, n) ==
    LET returned == [i \in 1..Len(result) |->
                        [sake_id |-> result[i].sake_id,
                         brewery_id |-> result[i].brewery_id]]
    IN  Slice(SortByScoreDesc(scored_sake(scan, prefs, history \o returned)), n)

recommend(scan, prefs, history, n) ==
    Slice(SortByScoreDesc(scored_sake(scan, prefs, history)), n)

\* Python's None
None == "None"

\* no request yet, and no response
NoEvent == [body |-> <<>>, authorizer |-> <<>>]

NoResponse == [statusCode |-> 0]

\* nothing was raised
NoException == [class |-> None]

(***************************************************************************)
(* The engine as a state machine: a table of sake, and calls of recommend. *)
(* A call scans the table (in some order), filters, scores, sorts and      *)
(* cuts; the same request may be made again, against a fresh scan.         *)
(***************************************************************************)
Init ==
    /\ sake_table \in SakeTables
    /\ all_sake = <<>>
    /\ preferences = <<>>
    /\ tasting_history = <<>>
    /\ limit = 10
    /\ result = <<>>
    /\ previous = <<>>
    /\ sake = <<>>
    /\ value = 0
    /\ pc = "idle"
    /\ event = NoEvent
    /\ response = NoResponse
    /\ table_calls = <<>>
    /\ raised = NoException

\* engine.recommend(user_id, preferences, tasting_history, limit)
Recommend ==
    /\ pc = "idle"
    /\ \E prefs \in PrefProfiles, history \in Histories, n \in Limits,
       scan \in ScanOrders(sake_table) :
        /\ preferences' = prefs
        /\ tasting_history' = history
        /\ limit' = n
        /\ all_sake' = scan
        /\ result' = recommend(scan, prefs, history, n)
    /\ previous' = <<>>
    /\ pc' = "returned"
    /\ UNCHANGED <<sake_table, sake, value, event, response, table_calls,
                   raised>>

\* a call during which the scan of the table raises: _get_all_sake gives
\* [], and so does recommend
RecommendScanFails ==
    /\ pc = "idle"
    /\ \E prefs \in PrefProfiles, history \in Histories, n \in Limits :
        /\ preferences' = prefs
        /\ tasting_history' = history
        /\ limit' = n
        /\ all_sake' = _get_all_sake([ok |-> FALSE])
        /\ result' = recommend(all_sake', prefs, history, n)
    /\ previous' = <<>>
    /\ pc' = "scan_failed"
    /\ UNCHANGED <<sake_table, sake, value, event, response, table_calls,
                   raised>>

\* the same call a second time: same preferences, history and limit, same
\* table
RecommendAgain ==
    /\ pc = "returned"
    /\ \E scan \in ScanOrders(sake_table) :
        /\ all_sake' = scan
        /\ previous' = result
        /\ result' = recommend(scan, preferences, tasting_history, limit)
    /\ pc' = "repeated"
    /\ UNCHANGED <<sake_table, preferences, tasting_history, limit, sake, value,
                   event, response, table_calls, raised>>

\* the request is over: nothing of it is kept, the table stays
EndRequest ==
    /\ pc \in {"returned", "repeated", "scan_failed"}
    /\ all_sake' = <<>>
    /\ preferences' = <<>>
    /\ tasting_history' = <<>>
    /\ limit' = 10
    /\ result' = <<>>
    /\ previous' = <<>>
    /\ pc' = "idle"
    /\ UNCHANGED <<sake_table, sake, value, event, response, table_calls,
                   raised>>

Next == Recommend \/ RecommendScanFails \/ RecommendAgain \/ EndRequest

Spec == Init /\ [][Next]_vars

(***************************************************************************)
(* The factor scorers on their own: one scorer applied to one input        *)
(***************************************************************************)
TasteProfiles ==
    [sweetness : TasteValues, acidity : TasteValues, richness : TasteValues]

LevelProfiles ==
    {[experience_level |-> lv] : lv \in ExperienceLevels} \cup {[sweetness |-> 3]}

CategorySakes ==
    {[category |-> c] : c \in Categories} \cup {[sweetness |-> 3]}

BrewerySakes ==
    {[sake_id |-> i, brewery_id |-> b] : i \in {"S1", "S2"}, b \in {"B1", "B2", "B3"}}
    \cup {[sake_id |-> "S1"]}

ScorerHistories == UNION {[1..n -> HistoryEntries] : n \in 0..(MaxHistory + 1)}

\* ratings in thousandths: within 0..5, and -20.0 and 9.0 outside it
ScoreRatings == {0 - 20000, 0, 1234, 3000, 4273, 5000, 9000}

ScoreCategories == {"junmai", "ginjo", "koshu"}

\* complete items, and items lacking the rating, the taste values, or both
ScoreSakes ==
    {Item("S3", "Hakkaisan", "B1", c, 1500, t[1], t[2], t[3], r) :
        c \in ScoreCategories, t \in {1, 3, 5} \X {1, 3, 5} \X {1, 3, 5},
        r \in ScoreRatings}
    \cup {[sake_id |-> "S3", name |-> "Hakkaisan", brewery_id |-> "B1",
           category |-> c] : c \in ScoreCategories}
    \cup {[sake_id |-> "S3", name |-> "Hakkaisan", brewery_id |-> "B1",
           category |-> c, rating |-> r] :
              c \in ScoreCategories, r \in ScoreRatings}
    \cup {[sake_id |-> "S3", name |-> "Hakkaisan", brewery_id |-> "B1",
           category |-> c, sweetness |-> t, richness |-> t] :
              c \in ScoreCategories, t \in {1, 5}}

\* complete profiles, and profiles lacking taste values
ScoreProfiles ==
    {Profile(sw, ac, ri, lv) :
        sw \in {1, 3, 5}, ac \in {3, 5}, ri \in {1, 3}, lv \in ExperienceLevels}
    \cup {[experience_level |-> lv] : lv \in ExperienceLevels}
    \cup {[sweetness |-> 5, experience_level |-> lv] : lv \in ExperienceLevels}

ReasonProfiles ==
    {[sweetness |-> v] : v \in TasteValues} \cup {[experience_level |-> "beginner"]}

ReasonSakes ==
    [sweetness : TasteValues, category : Categories]
    \cup {[category |-> c] : c \in Categories}
    \cup {[sweetness |-> v] : v \in TasteValues}

InitScorer ==
    /\ \/ /\ pc = "taste"
          /\ preferences \in TasteProfiles
          /\ sake \in TasteProfiles
          /\ tasting_history = <<>>
       \/ /\ pc = "experience"
          /\ preferences \in LevelProfiles
          /\ sake \in CategorySakes
          /\ tasting_history = <<>>
       \/ /\ pc = "diversity"
          /\ preferences = [sweetness |-> 3]
          /\ sake \in BrewerySakes
          /\ tasting_history \in ScorerHistories
       \/ /\ pc = "reason"
          /\ preferences \in ReasonProfiles
          /\ sake \in ReasonSakes
          /\ tasting_history = <<>>
       \/ /\ pc = "score"
          /\ preferences \in ScoreProfiles
          /\ sake \in ScoreSakes
          /\ tasting_history \in Histories
    /\ value = 0
    /\ sake_table = {}
    /\ all_sake = <<>>
    /\ event = NoEvent
    /\ response = NoResponse
    /\ table_calls = <<>>
    /\ raised = NoException
    /\ limit = 10
    /\ result = <<>>
    /\ previous = <<>>

TasteMatch ==
    /\ pc = "taste"
    /\ value' = _calculate_taste_match(sake, preferences)
    /\ pc' = "taste_done"
    /\ UNCHANGED <<sake_table, all_sake, preferences, tasting_history, limit,
                   result, previous, sake, event, response, table_calls,
                   raised>>

ExperienceMatch ==
    /\ pc = "experience"
    /\ value' = _calculate_experience_match(sake, preferences)
    /\ pc' = "experience_done"
    /\ UNCHANGED <<sake_table, all_sake, preferences, tasting_history, limit,
                   result, previous, sake, event, response, table_calls,
                   raised>>

DiversityScore ==
    /\ pc = "diversity"
    /\ value' = _calculate_diversity_score(sake, tasting_history)
    /\ pc' = "diversity_done"
    /\ UNCHANGED <<sake_table, all_sake, preferences, tasting_history, limit,
                   result, previous, sake, event, response, table_calls,
                   raised>>

\* one candidate scored as recommend scores it: the composite, and the
\* record built from it
ScoreCandidate ==
    /\ pc = "score"
    /\ value' = _calculate_score(sake, preferences, tasting_history)
    /\ result' = <<ScoredRecord(sake, preferences, tasting_history)>>
    /\ pc' = "score_done"
    /\ UNCHANGED <<sake_table, all_sake, preferences, tasting_history, limit,
                   previous, sake, event, response, table_calls, raised>>

MatchReason ==
    /\ pc = "reason"
    /\ value' = _generate_match_reason(sake, preferences)
    /\ pc' = "reason_done"
    /\ UNCHANGED <<sake_table, all_sake, preferences, tasting_history, limit,
                   result, previous, sake, event, response, table_calls,
                   raised>>

NextScorer ==
    TasteMatch \/ ExperienceMatch \/ DiversityScore \/ ScoreCandidate \/ MatchReason

SpecScorer == InitScorer /\ [][NextScorer]_vars

(***************************************************************************)
(* The recommendation handler (backend/lambdas/recommendation/handler.py): *)
(* one invocation per request.  The body is a JSON object, taken here as   *)
(* already parsed; the response body is kept as a record, not as the JSON  *)
(* text json.dumps makes of it.                                            *)
(***************************************************************************)
\* not x, for a string or None
Falsy(x) == x = None \/ x = ""

\* error_response(400, "BadRequest", message)
bad_request_response(message) ==
    [statusCode |-> 400, error |-> "BadRequest", message |-> message]

\* success_response({"recommendations": recommendations})
success_response(recommendations) ==
    [statusCode |-> 200, success |-> TRUE,
     data |-> [recommendations |-> recommendations]]

\* a faulty variant: a request without a user is served as a guest
request_user_id_guest(ev) ==
    LET user_id == Get(ev.body, "user_id", None)
    IN  IF Falsy(user_id) THEN Get(ev.authorizer, "user_id", "guest") ELSE user_id

\* body.get("user_id"), or else the authorizer's user_id
request_user_id(ev) ==
    LET user_id == Get(ev.body, "user_id", None)
    IN  IF Falsy(user_id) THEN Get(ev.authorizer, "user_id", None) ELSE user_id

\* The limit the handler lets through at most
max_limit == 50

\* min(body.get("limit", 10), 50)
request_limit(ev) == Min(Get(ev.body, "limit", 10), max_limit)

\* the profiles a request may carry
HandlerProfiles ==
    { Profile(3, 3, 3, "intermediate"),
      [sweetness |-> 3, acidity |-> 3, richness |-> 3,
       experience_level |-> "intermediate", budget |-> 3000,
       categories |-> <<"junmai", "daiginjo">>] }

\* limit: not positive, within 1..MaxLimit, or above the maximum of 50
RequestLimits == {0 - 1, 0} \cup Limits \cup {60}

\* the fields a body may have, each of them optional
BodyFields ==
    [user_id : {"", "U1"}, preferences : {<<>>} \cup HandlerProfiles,
     limit : RequestLimits]

Restrict(r, keys) == [k \in keys |-> r[k]]

Bodies ==
    {Restrict(b, keys) : b \in BodyFields,
                         keys \in SUBSET {"user_id", "preferences", "limit"}}

Events ==
    [body : Bodies, authorizer : {<<>>, [user_id |-> "U2"]}]

\* A catalog with more sake than the handler may ever return, every item
\* with the required fields only.
LargeCatalogSize == max_limit + 2

LargeScan ==
    [i \in 1..LargeCatalogSize |->
        [sake_id |-> "L" \o ToString(i), name |-> "Sake " \o ToString(i),
         brewery_id |-> "B4", category |-> "ginjo"]]

LargeCatalog == Range(LargeScan)

\* The orders a scan may come in: any order for a small table; for the large
\* catalog one order stands for them all.
HandlerScans(t) == IF t = LargeCatalog THEN {LargeScan} ELSE ScanOrders(t)

\* sake_table.scan(): the items, or an exception
ScanOutcomes(t) ==
    {[ok |-> TRUE, Items |-> scan] : scan \in HandlerScans(t)} \cup {[ok |-> FALSE]}

\* tasting_table.query(...): the user's records, or an exception
QueryOutcomes ==
    {[ok |-> TRUE, Items |-> history] : history \in Histories} \cup {[ok |-> FALSE]}

\* a faulty variant: a failed query answered from an older history
get_tasting_history_stale(queried) ==
    IF queried.ok THEN queried.Items
    ELSE <<[sake_id |-> "S1", brewery_id |-> "B1"]>>

\* get_tasting_history: the query's items, [] when the query raises
get_tasting_history(queried) == IF queried.ok THEN queried.Items ELSE <<>>

TableCall(table, op, ok) == [table |-> table, op |-> op, ok |-> ok]

InitHandler ==
    /\ sake_table \in SakeTables \cup {LargeCatalog}
    /\ all_sake = <<>>
    /\ preferences = <<>>
    /\ tasting_history = <<>>
    /\ limit = 10
    /\ result = <<>>
    /\ previous = <<>>
    /\ sake = <<>>
    /\ value = 0
    /\ pc = "idle"
    /\ event = NoEvent
    /\ response = NoResponse
    /\ table_calls = <<>>
    /\ raised = NoException

\* handler(event, context): the user_id and preferences checks, the limit,
\* get_tasting_history, engine.recommend and the response
Handler ==
    /\ pc = "idle"
    /\ \E ev \in Events, scanned \in ScanOutcomes(sake_table),
          queried \in QueryOutcomes :
        /\ event' = ev
        /\ IF Falsy(request_user_id(ev))
           THEN /\ response' = bad_request_response("user_id is required")
                /\ UNCHANGED <<all_sake, preferences, tasting_history, limit,
                               result, table_calls>>
           ELSE IF DOMAIN Get(ev.body, "preferences", <<>>) = {}
           THEN /\ response' = bad_request_response("preferences is required")
                /\ UNCHANGED <<all_sake, preferences, tasting_history, limit,
                               result, table_calls>>
           ELSE /\ preferences' = ev.body.preferences
                /\ limit' = request_limit(ev)
                /\ tasting_history' = get_tasting_history(queried)
                /\ all_sake' = _get_all_sake(scanned)
                /\ table_calls' =
                       <<TableCall("tasting_table", "query", queried.ok),
                         TableCall("sake_table", "scan", scanned.ok)>>
                /\ result' = recommend(all_sake', preferences', tasting_history',
                                       limit')
                /\ response' = success_response(result')
    /\ pc' = "responded"
    /\ UNCHANGED <<sake_table, previous, sake, value, raised>>

\* the invocation is over; the next request finds the same table
NextInvocation ==
    /\ pc = "responded"
    /\ all_sake' = <<>>
    /\ preferences' = <<>>
    /\ tasting_history' = <<>>
    /\ limit' = 10
    /\ result' = <<>>
    /\ event' = NoEvent
    /\ response' = NoResponse
    /\ table_calls' = <<>>
    /\ pc' = "idle"
    /\ UNCHANGED <<sake_table, previous, sake, value, raised>>

NextHandler == Handler \/ NextInvocation

SpecHandler == InitHandler /\ [][NextHandler]_vars

(***************************************************************************)
(* handle_errors (backend/lambdas/layer/error_handler.py): the wrapper     *)
(* every handler runs in.  What the wrapped function does is one of its    *)
(* outcomes: it returns a response, or it raises.  An exception is a       *)
(* record of its class and of what the wrapper reads of it; a class stands *)
(* with its base classes, an except clause taking the subclasses as well.  *)
(***************************************************************************)
\* error_response(status_code, error, message, details): message and
\* details enter the body only when they are not empty
error_response(status_code, error, message, details) ==
    LET head == [statusCode |-> status_code, error |-> error]
        with_message == IF message = "" THEN head
                        ELSE [k \in DOMAIN head \cup {"message"} |->
                                 IF k = "message" THEN message ELSE head[k]]
    IN  IF details = <<>> THEN with_message
        ELSE [k \in DOMAIN with_message \cup {"details"} |->
                 IF k = "details" THEN details ELSE with_message[k]]

\* internal_error_response(message)
internal_error_response(message) ==
    error_response(500, "InternalError", message, <<>>)

\* the classes of the exceptions, each with its base classes
Bases(class) ==
    CASE class = "ValidationError" -> {"ValidationError", "ValueError", "Exception"}
      [] class = "ClientError" -> {"ClientError", "Exception"}
      [] class = "KeyError" -> {"KeyError", "LookupError", "Exception"}
      [] class = "IndexError" -> {"IndexError", "LookupError", "Exception"}
      [] class = "ValueError" -> {"ValueError", "Exception"}
      [] class = "JSONDecodeError" -> {"JSONDecodeError", "ValueError", "Exception"}
      [] class = "TypeError" -> {"TypeError", "Exception"}
      [] class = "AttributeError" -> {"AttributeError", "Exception"}
      [] class = "RuntimeError" -> {"RuntimeError", "Exception"}

\* isinstance(e, class)
IsInstance(e, class) == class \in Bases(e.class)

\* str(e) of a KeyError is the repr of the key
KeyErrorText(e) == "'" \o e.text \o "'"

\* a faulty variant: no clause for KeyError, which falls to the last one
handle_errors_without_key_error(e, returned) ==
    IF e = NoException THEN returned
    ELSE IF IsInstance(e, "ValidationError")
    THEN error_response(400, "ValidationError", "Invalid request data",
                        [errors |-> e.errors])
    ELSE IF IsInstance(e, "ClientError")
    THEN IF e.code = "ResourceNotFoundException"
         THEN error_response(404, "NotFound", e.text, <<>>)
         ELSE IF e.code \in {"AccessDeniedException", "UnauthorizedException"}
         THEN error_response(403, "Forbidden", "Access denied", <<>>)
         ELSE IF e.code \in {"ValidationException", "InvalidParameterException"}
         THEN error_response(400, "BadRequest", e.text, <<>>)
         ELSE internal_error_response("Service error occurred")
    ELSE IF IsInstance(e, "ValueError")
    THEN error_response(400, "BadRequest", e.text, <<>>)
    ELSE internal_error_response("An unexpected error occurred")

\* wrapper(event, context): the response of func, or the response made of
\* the exception it raised; the clauses are tried in the order they are
\* written in
handle_errors(e, returned) ==
    IF e = NoException THEN returned
    ELSE IF IsInstance(e, "ValidationError")
    THEN error_response(400, "ValidationError", "Invalid request data",
                        [errors |-> e.errors])
    ELSE IF IsInstance(e, "ClientError")
    THEN IF e.code = "ResourceNotFoundException"
         THEN error_response(404, "NotFound", e.text, <<>>)
         ELSE IF e.code \in {"AccessDeniedException", "UnauthorizedException"}
         THEN error_response(403, "Forbidden", "Access denied", <<>>)
         ELSE IF e.code \in {"ValidationException", "InvalidParameterException"}
         THEN error_response(400, "BadRequest", e.text, <<>>)
         ELSE internal_error_response("Service error occurred")
    ELSE IF IsInstance(e, "KeyError")
    THEN error_response(400, "BadRequest",
                        "Missing required field: " \o KeyErrorText(e), <<>>)
    ELSE IF IsInstance(e, "ValueError")
    THEN error_response(400, "BadRequest", e.text, <<>>)
    ELSE internal_error_response("An unexpected error occurred")

\* the error codes a ClientError may carry: those the wrapper names, and
\* two it does not
ClientErrorCodes ==
    {"ResourceNotFoundException", "AccessDeniedException",
     "UnauthorizedException", "ValidationException",
     "InvalidParameterException", "ConditionalCheckFailedException",
     "ProvisionedThroughputExceededException"}

ErrorTexts ==
    {"", "sake_id", "Requested resource not found", "Expecting value"}

\* what a wrapped function may raise
Raisable ==
    [class : {"ValidationError"}, errors : {<<"missing">>, <<"missing", "int_parsing">>}]
    \cup [class : {"ClientError"}, code : ClientErrorCodes, text : ErrorTexts]
    \cup [class : {"KeyError", "IndexError", "ValueError", "JSONDecodeError",
                   "TypeError", "AttributeError", "RuntimeError"},
        text : ErrorTexts]

\* what a wrapped function may return
Returnable ==
    {success_response(<<>>), [statusCode |-> 201, success |-> TRUE],
     [statusCode |-> 204], bad_request_response("user_id is required"),
     error_response(401, "Unauthorized", "Unauthorized", <<>>),
     error_response(404, "NotFound", "Record not found", <<>>)}

InitErrors ==
    /\ sake_table = {}
    /\ all_sake = <<>>
    /\ preferences = <<>>
    /\ tasting_history = <<>>
    /\ limit = 10
    /\ result = <<>>
    /\ previous = <<>>
    /\ sake = <<>>
    /\ value = 0
    /\ pc = "idle"
    /\ event \in [body : {<<>>}, authorizer : {<<>>, [user_id |-> "U1"]}]
    /\ response = NoResponse
    /\ table_calls = <<>>
    /\ raised = NoException

\* wrapper(event, context) around a function that returns
WrapperReturns ==
    /\ pc = "idle"
    /\ \E returned \in Returnable :
        /\ result' = returned
        /\ raised' = NoException
        /\ response' = handle_errors(NoException, returned)
    /\ pc' = "wrapped"
    /\ UNCHANGED <<sake_table, all_sake, preferences, tasting_history, limit,
                   previous, sake, value, event, table_calls>>

\* wrapper(event, context) around a function that raises
WrapperCatches ==
    /\ pc = "idle"
    /\ \E e \in Raisable :
        /\ result' = <<>>
        /\ raised' = e
        /\ response' = handle_errors(e, <<>>)
    /\ pc' = "wrapped"
    /\ UNCHANGED <<sake_table, all_sake, preferences, tasting_history, limit,
                   previous, sake, value, event, table_calls>>

\* the next invocation
WrapperAgain ==
    /\ pc = "wrapped"
    /\ result' = <<>>
    /\ raised' = NoException
    /\ response' = NoResponse
    /\ pc' = "idle"
    /\ UNCHANGED <<sake_table, all_sake, preferences, tasting_history, limit,
                   previous, sake, value, event, table_calls>>

NextErrors == WrapperReturns \/ WrapperCatches \/ WrapperAgain

SpecErrors == InitErrors /\ [][NextErrors]_vars

(***************************************************************************)
(* The tasting handler (backend/lambdas/tasting/handler.py), for a POST:   *)
(* handler routes the request to handle_create_record, which validates the *)
(* record with the TastingRecord model and puts it in the tasting table.   *)
(* The table is outside the program: put_item stores the item or raises.   *)
(* The moment of the request (datetime.utcnow()) is the text "utcnow".     *)
(***************************************************************************)
\* {**a, **b}: the keys of both, b's values where both have the key
Merge(a, b) ==
    [k \in DOMAIN a \cup DOMAIN b |-> IF k \in DOMAIN b THEN b[k] ELSE a[k]]

\* uuid.uuid4().hex[:12]
UuidHex == {"3f2a9c0b7d1e", "a04be8815c62"}

\* the fields a body of a POST may have, each of them optional; user_id may
\* be null or empty, rating 0 is below the least rating
TastingBodyFields ==
    [user_id : {None, "", "U1", "U2"}, record_id : {"R-chosen"},
     sake_id : {"S1"}, rating : {0, 4},
     flavor_profile : {[sweetness |-> 3, acidity |-> 3, body |-> 3,
                        aroma_intensity |-> 3]},
     visited_at : {"2025-01-01T19:00:00"}]

TastingBodies ==
    {Restrict(b, keys) : b \in TastingBodyFields,
                         keys \in SUBSET {"user_id", "record_id", "sake_id",
                                          "rating", "flavor_profile",
                                          "visited_at"}}

TastingEvents ==
    [httpMethod : {"POST"}, body : TastingBodies,
     authorizer : {<<>>, [user_id |-> "U1"]}]

\* TastingRecord(**record_data) passes: the required fields are there, the
\* user_id is a string and the rating is within 1..5
ValidTastingRecord(record_data) ==
    /\ {"user_id", "record_id", "sake_id", "rating", "flavor_profile",
        "visited_at"} \subseteq DOMAIN record_data
    /\ record_data.user_id # None
    /\ record_data.rating \in 1..5

\* record.model_dump(): the fields of the model, the optional ones with
\* their defaults; what is no field of the model (tasting_date) is left out
model_dump(record_data) ==
    [user_id |-> record_data.user_id,
     record_id |-> record_data.record_id,
     sake_id |-> record_data.sake_id,
     rating |-> record_data.rating,
     notes |-> Get(record_data, "notes", ""),
     flavor_profile |-> record_data.flavor_profile,
     photos |-> <<>>,
     visited_at |-> record_data.visited_at,
     location |-> None, price_paid |-> None, temperature |-> None,
     pairing |-> None,
     created_at |-> "utcnow", updated_at |-> "utcnow"]

\* record_data = {"user_id": ..., "record_id": ..., "tasting_date": ..., **body}
create_record_data(body, user_id, hex) ==
    Merge([user_id |-> user_id, record_id |-> "R" \o hex,
           tasting_date |-> Get(body, "tasting_date", "utcnow")],
          body)

\* body.get("user_id"), or else the authenticated user
create_user_id(ev) ==
    LET user_id == Get(ev.body, "user_id", None)
    IN  IF Falsy(user_id) THEN Get(ev.authorizer, "user_id", None) ELSE user_id

\* tasting_table.put_item(Item=...): it returns, or it raises
PutOutcomes ==
    {NoException}
    \cup [class : {"ClientError"},
          code : {"ValidationException", "ProvisionedThroughputExceededException"},
          text : {"Requested resource not found"}]

\* created_response(...) makes JSON of record.model_dump(), in which
\* visited_at, created_at and updated_at are datetime objects: json.dumps
\* raises TypeError
NotSerializable ==
    [class |-> "TypeError",
     text |-> "Object of type datetime is not JSON serializable"]

InitTasting ==
    /\ sake_table = {}
    /\ all_sake = <<>>
    /\ preferences = <<>>
    /\ tasting_history = <<>>
    /\ limit = 10
    /\ result = <<>>
    /\ previous = <<>>
    /\ sake = <<>>
    /\ value = 0
    /\ pc = "idle"
    /\ event = NoEvent
    /\ response = NoResponse
    /\ table_calls = <<>>
    /\ raised = NoException

\* handler(event, context) for a POST, within handle_errors
CreateRecord ==
    /\ pc = "idle"
    /\ \E ev \in TastingEvents, hex \in UuidHex, put \in PutOutcomes :
        LET user_id == create_user_id(ev)
            record_data == create_record_data(ev.body, user_id, hex)
        IN  /\ event' = ev
            /\ IF Falsy(user_id)
               THEN /\ raised' = NoException
                    /\ table_calls' = <<>>
                    /\ response' = bad_request_response("user_id is required")
               ELSE IF ~ValidTastingRecord(record_data)
               THEN /\ raised' = [class |-> "ValidationError",
                                  errors |-> <<"invalid">>]
                    /\ table_calls' = <<>>
                    /\ response' = handle_errors(raised', <<>>)
               ELSE /\ table_calls' =
                           <<[table |-> "tasting_table", op |-> "put_item",
                              ok |-> (put = NoException),
                              Item |-> model_dump(record_data)]>>
                    /\ raised' = IF put = NoException THEN NotSerializable ELSE put
                    /\ response' = handle_errors(raised', <<>>)
    /\ pc' = "created"
    /\ UNCHANGED <<sake_table, all_sake, preferences, tasting_history, limit,
                   result, previous, sake, value>>

\* the next request
TastingAgain ==
    /\ pc = "created"
    /\ event' = NoEvent
    /\ response' = NoResponse
    /\ table_calls' = <<>>
    /\ raised' = NoException
    /\ pc' = "idle"
    /\ UNCHANGED <<sake_table, all_sake, preferences, tasting_history, limit,
                   result, previous, sake, value>>

NextTasting == CreateRecord \/ TastingAgain

SpecTasting == InitTasting /\ [][NextTasting]_vars

(***************************************************************************)
(* What the claims speak of                                                *)
(***************************************************************************)
Called == pc \in {"returned", "repeated"}

Ids(recs) == {recs[i].sake_id : i \in 1..Len(recs)}

TastedIds == {tasting_history[i].sake_id : i \in 1..Len(tasting_history)}

BudgetSet == "budget" \in DOMAIN preferences /\ preferences.budget > 0

CategoriesSet ==
    "categories" \in DOMAIN preferences /\ Len(preferences.categories) > 0

PriceOf(s) == IF "price" \in DOMAIN s THEN s.price ELSE 0

WithinBudget(s) == BudgetSet => PriceOf(s) <= preferences.budget

CategoryAllowed(s) ==
    CategoriesSet =>
        \E k \in 1..Len(preferences.categories) : preferences.categories[k] = s.category

\* the items of the table that survive the three filters, as section 4.1
\* of the specification words them
Eligible == {s \in sake_table :
                WithinBudget(s) /\ CategoryAllowed(s) /\ s.sake_id \notin TastedIds}

\* the score the engine gives an item under the request at hand
ScoreOf(s) == ScoredRecord(s, preferences, tasting_history).score

(***************************************************************************)
(* C1: every record recommend returns has a score of at least 0 and at     *)
(* most 100.                                                               *)
(***************************************************************************)
C1_ScoreInRange ==
    Called => \A i \in 1..Len(result) :
                  result[i].score >= 0 /\ result[i].score <= Pt(100)

\* a record scored exactly 100 beside one whose taste match is 0
C1_Witness ==
    /\ pc = "returned"
    /\ \E i, j \in 1..Len(result) :
          /\ result[i].score = Pt(100)
          /\ result[j].score < Pt(30)

(***************************************************************************)
(* C2: with a budget set, no returned record costs more than the budget,   *)
(* however well it matches on taste.                                       *)
(***************************************************************************)
C2_BudgetRespected ==
    (Called /\ BudgetSet) =>
        \A i \in 1..Len(result) : result[i].price <= preferences.budget

\* a perfect taste match that costs too much was in the scan, and something
\* cheaper was returned
C2_Witness ==
    /\ pc = "returned"
    /\ BudgetSet
    /\ \E k \in 1..Len(all_sake) :
          /\ PriceOf(all_sake[k]) > preferences.budget
          /\ _calculate_taste_match(all_sake[k], preferences) = Pt(100)
    /\ Len(result) > 0

(***************************************************************************)
(* C3: no sake_id of the tasting history is among the returned records.    *)
(***************************************************************************)
C3_NoTastedSake == Called => Ids(result) \cap TastedIds = {}

\* a tasted sake was in the scan, and something else was returned
C3_Witness ==
    /\ pc = "returned"
    /\ \E k \in 1..Len(all_sake) : all_sake[k].sake_id \in TastedIds
    /\ Len(result) > 0

(***************************************************************************)
(* C4: for a positive limit, the returned list is as long as the smaller   *)
(* of the limit and the number of items surviving the three filters.       *)
(***************************************************************************)
C4_Length ==
    (Called /\ limit > 0) => Len(result) = Min(limit, Cardinality(Eligible))

\* the limit cuts: more eligible items than the limit, and some filtered out
C4_Witness ==
    /\ pc = "returned"
    /\ Cardinality(Eligible) > limit
    /\ Len(result) = limit
    /\ Cardinality(Eligible) < Cardinality(sake_table)

(***************************************************************************)
(* C5: the returned list is sorted by score, non-increasing.               *)
(***************************************************************************)
C5_Sorted ==
    Called => \A i \in 1..Len(result) - 1 : result[i].score >= result[i + 1].score

\* the sort had work to do: the scan had the better item after the worse
C5_Witness ==
    /\ pc = "returned"
    /\ Len(result) >= 2
    /\ result[1].score > result[2].score
    /\ \E i, j \in 1..Len(all_sake) :
          /\ i < j
          /\ all_sake[j].sake_id = result[1].sake_id
          /\ all_sake[i].sake_id = result[2].sake_id

(***************************************************************************)
(* C6: when more items are eligible than the limit, the returned ones are  *)
(* the highest-scoring: an eligible item left out scores no more than any  *)
(* returned record.                                                        *)
(***************************************************************************)
C6_TopScores ==
    (Called /\ Cardinality(Eligible) > limit) =>
        \A s \in Eligible :
            s.sake_id \notin Ids(result) =>
                \A i \in 1..Len(result) : ScoreOf(s) <= result[i].score

\* an item was left out that scores strictly less, though it came first in
\* the scan
C6_Witness ==
    /\ pc = "returned"
    /\ Cardinality(Eligible) > limit
    /\ Len(result) = limit
    /\ \E s \in Eligible :
          /\ s.sake_id \notin Ids(result)
          /\ ScoreOf(s) < result[Len(result)].score
          /\ all_sake[1] = s

(***************************************************************************)
(* C7: with a non-empty category list every returned record's category is  *)
(* in the list; with an empty or absent list no item is dropped for its    *)
(* category (an item within budget and not tasted is returned unless the   *)
(* limit is reached).                                                      *)
(***************************************************************************)
C7_Categories ==
    Called =>
        /\ CategoriesSet =>
              \A i \in 1..Len(result) :
                  \E k \in 1..Len(preferences.categories) :
                      preferences.categories[k] = result[i].category
        /\ (~CategoriesSet /\ limit > 0) =>
              \A s \in sake_table :
                  (WithinBudget(s) /\ s.sake_id \notin TastedIds) =>
                      (s.sake_id \in Ids(result) \/ Len(result) = limit)

\* a listed category was returned while an affordable, untasted item of
\* another category was in the scan
C7_Witness ==
    /\ pc = "returned"
    /\ CategoriesSet
    /\ Len(result) > 0
    /\ \E s \in sake_table :
          /\ WithinBudget(s)
          /\ s.sake_id \notin TastedIds
          /\ ~CategoryAllowed(s)

(***************************************************************************)
(* C8: the same call made twice (same preferences, table contents,         *)
(* history and limit) gives every candidate the same score and returns the *)
(* same set of sake_ids.                                                   *)
(***************************************************************************)
SameScores ==
    \A i \in 1..Len(result), j \in 1..Len(previous) :
        result[i].sake_id = previous[j].sake_id =>
            result[i].score = previous[j].score

C8_SameSet ==
    pc = "repeated" => (SameScores /\ Ids(result) = Ids(previous))

\* no item that was left out has the score of a returned record
NoCutoffTie ==
    \A s \in Eligible :
        s.sake_id \notin Ids(result) =>
            \A i \in 1..Len(result) : ScoreOf(s) # result[i].score

\* as amended: the same scores, the same number of records and the same
\* scores position by position; the same set of ids when no score tie
\* straddles the cut-off
C8_SameScoresAndSetWithoutTie ==
    pc = "repeated" =>
        /\ SameScores
        /\ Len(result) = Len(previous)
        /\ \A i \in 1..Len(result) : result[i].score = previous[i].score
        /\ NoCutoffTie => Ids(result) = Ids(previous)

\* the second scan came in another order: the two lists differ, the limit
\* cut an item off, and yet the sets agree
C8_Witness ==
    /\ pc = "repeated"
    /\ Cardinality(Eligible) > limit
    /\ Len(result) = limit
    /\ result # previous
    /\ NoCutoffTie
    /\ Ids(result) = Ids(previous)

(***************************************************************************)
(* C9: for taste values in 1..5 the Taste-Match score is                   *)
(* max(0, 100 - 25 * (|d_sweetness| + |d_acidity| + |d_richness|) / 3); it *)
(* is 100 exactly when the three values coincide, 0 exactly when the three *)
(* differences are 4, and always within [0, 100].                          *)
(***************************************************************************)
TasteDiffs ==
    <<Abs(preferences.sweetness - sake.sweetness),
      Abs(preferences.acidity - sake.acidity),
      Abs(preferences.richness - sake.richness)>>

C9_TasteMatch ==
    pc = "taste_done" =>
        LET d == TasteDiffs
            total == d[1] + d[2] + d[3]
        IN  /\ 3 * value = Max(0, 300 * Scale - 25 * total * Scale)
            /\ value = Pt(100) <=> (d[1] = 0 /\ d[2] = 0 /\ d[3] = 0)
            /\ value = 0 <=> (d[1] = 4 /\ d[2] = 4 /\ d[3] = 4)
            /\ value >= 0 /\ value <= Pt(100)

\* a score that is not a whole number: the differences add up to 7
C9_Witness ==
    /\ pc = "taste_done"
    /\ TasteDiffs = <<4, 2, 1>>
    /\ 3 * value = 125 * Scale

(***************************************************************************)
(* C10: the Experience-Match score is, for beginner, 100 for junmai,       *)
(* honjozo and futsushu and 50 otherwise; for intermediate, 80; for        *)
(* advanced, 100 for daiginjo, junmai_daiginjo and koshu and 70 otherwise; *)
(* for any other level, 50.  The two category sets are disjoint.           *)
(***************************************************************************)
CategoryIn(S) == "category" \in DOMAIN sake /\ sake.category \in S

C10_ExperienceMatch ==
    /\ Range(beginner_categories) \cap Range(advanced_categories) = {}
    /\ (pc = "experience_done" /\ "experience_level" \in DOMAIN preferences) =>
          LET level == preferences.experience_level
          IN  /\ level = "beginner" =>
                    value = IF CategoryIn({"junmai", "honjozo", "futsushu"})
                            THEN Pt(100) ELSE Pt(50)
              /\ level = "intermediate" => value = Pt(80)
              /\ level = "advanced" =>
                    value = IF CategoryIn({"daiginjo", "junmai_daiginjo", "koshu"})
                            THEN Pt(100) ELSE Pt(70)
              /\ level \notin {"beginner", "intermediate", "advanced"} =>
                    value = Pt(50)

\* an advanced drinker and a koshu
C10_Witness ==
    /\ pc = "experience_done"
    /\ "experience_level" \in DOMAIN preferences
    /\ preferences.experience_level = "advanced"
    /\ CategoryIn({"koshu"})
    /\ value = Pt(100)

(***************************************************************************)
(* C11: a profile without experience_level is not taken for a beginner:    *)
(* its Experience-Match score is 50 for every category, as for an unknown  *)
(* level.                                                                  *)
(***************************************************************************)
C11_AbsentLevelScores50 ==
    (pc = "experience_done" /\ "experience_level" \notin DOMAIN preferences) =>
        value = Pt(50)

(***************************************************************************)
(* C12: the Diversity score is 100 if the history is empty or no history   *)
(* entry has the item's brewery_id, and 50 otherwise; it takes no other    *)
(* value.                                                                  *)
(***************************************************************************)
C12_Diversity ==
    pc = "diversity_done" =>
        /\ value \in {Pt(100), Pt(50)}
        /\ "brewery_id" \in DOMAIN sake =>
              value = IF \/ Len(tasting_history) = 0
                         \/ \A i \in 1..Len(tasting_history) :
                               tasting_history[i].brewery_id # sake.brewery_id
                      THEN Pt(100) ELSE Pt(50)

\* the sake itself was not tasted, another sake of its brewery was
C12_Witness ==
    /\ pc = "diversity_done"
    /\ "brewery_id" \in DOMAIN sake
    /\ \E i \in 1..Len(tasting_history) :
          /\ tasting_history[i].brewery_id = sake.brewery_id
          /\ tasting_history[i].sake_id # sake.sake_id
    /\ \A i \in 1..Len(tasting_history) : tasting_history[i].sake_id # sake.sake_id
    /\ value = Pt(50)

(***************************************************************************)
(* C13: the composite score is 0.6 * Taste-Match + 0.2 * Experience-Match  *)
(* + 0.1 * Diversity + 0.1 * (rating * 20), capped at 100, and the         *)
(* record's score is that value rounded to 2 decimal places.               *)
(***************************************************************************)
Hundredth == Scale \div 100

C13_Composite ==
    (pc = "score_done" /\ "rating" \in DOMAIN sake) =>
        /\ 10 * value =
              Min(6 * _calculate_taste_match(sake, preferences)
                  + 2 * _calculate_experience_match(sake, preferences)
                  + _calculate_diversity_score(sake, tasting_history)
                  + sake.rating * RatingUnit * 20,
                  Pt(1000))
        /\ result[1].score % Hundredth = 0
        /\ 2 * Abs(result[1].score - value) <= Hundredth

\* a rating of 4.273: the composite has a third decimal and is rounded
C13_Witness ==
    /\ pc = "score_done"
    /\ "rating" \in DOMAIN sake
    /\ sake.rating = 4273
    /\ value < Pt(100)
    /\ result[1].score # value

(***************************************************************************)
(* C14: the score of a returned record is within [0, 100] also for a       *)
(* rating outside 0..5, negative or above 5.                               *)
(***************************************************************************)
C14_ScoreClamped ==
    pc = "score_done" => (result[1].score >= 0 /\ result[1].score <= Pt(100))

(***************************************************************************)
(* C15: an item whose three taste values equal the profile's, with rating  *)
(* 5.0 and an empty history, has Taste-Match 100, Popularity 100 and       *)
(* Diversity 100, hence composite 80 + 0.2 * Experience-Match, and no      *)
(* other item scores strictly higher under the same profile and history.   *)
(***************************************************************************)
PrefTaste(k) == IF k \in DOMAIN preferences THEN preferences[k] ELSE 3

\* the scenario: complete item, same taste as the profile, rating 5.0,
\* nothing tasted
PerfectMatch ==
    /\ pc = "score_done"
    /\ {"sweetness", "acidity", "richness", "rating"} \subseteq DOMAIN sake
    /\ sake.sweetness = PrefTaste("sweetness")
    /\ sake.acidity = PrefTaste("acidity")
    /\ sake.richness = PrefTaste("richness")
    /\ sake.rating = 5000
    /\ tasting_history = <<>>

PerfectFactors ==
    /\ _calculate_taste_match(sake, preferences) = Pt(100)
    /\ popularity_score(sake) = Pt(100)
    /\ _calculate_diversity_score(sake, tasting_history) = Pt(100)
    /\ 10 * value = Pt(800) + 2 * _calculate_experience_match(sake, preferences)

\* the items the data model allows: a rating, if any, within 0..5
RatedInRange ==
    {o \in ScoreSakes : "rating" \in DOMAIN o => (o.rating >= 0 /\ o.rating <= 5000)}

C15_HighestOfAll ==
    PerfectMatch =>
        /\ PerfectFactors
        /\ \A o \in RatedInRange :
              _calculate_score(o, preferences, tasting_history) <= value

\* as amended: highest among the items whose Experience-Match is not higher
C15_HighestForItsExperienceMatch ==
    PerfectMatch =>
        /\ PerfectFactors
        /\ \A o \in RatedInRange :
              _calculate_experience_match(o, preferences)
                  <= _calculate_experience_match(sake, preferences)
              => _calculate_score(o, preferences, tasting_history) <= value

\* a perfect match of a category that does not suit the level best: it
\* scores 90, and an item of a better category scores more
C15_Witness ==
    /\ PerfectMatch
    /\ value = Pt(90)
    /\ \E o \in RatedInRange :
          _calculate_score(o, preferences, tasting_history) > value

(***************************************************************************)
(* C19: missing optional fields are replaced by neutral defaults: an item  *)
(* lacking sweetness, acidity, richness or rating scores exactly as the    *)
(* same item with them set to 3, 3, 3 and 3.0, and a profile lacking       *)
(* sweetness, acidity or richness is scored as if the value were 3.        *)
(***************************************************************************)
Field(d, k, v) == IF k \in DOMAIN d THEN d[k] ELSE v

\* the item with every optional scoring field present
CompletedSake ==
    Item(sake.sake_id, sake.name, sake.brewery_id, sake.category,
         Field(sake, "price", 0), Field(sake, "sweetness", 3),
         Field(sake, "acidity", 3), Field(sake, "richness", 3),
         Field(sake, "rating", 3000))

\* the profile with the three taste values present
CompletedPreferences ==
    [k \in DOMAIN preferences \cup {"sweetness", "acidity", "richness"} |->
        Field(preferences, k, 3)]

C19_NeutralDefaults ==
    pc = "score_done" =>
        /\ value = _calculate_score(CompletedSake, CompletedPreferences, tasting_history)
        /\ result[1].score
              = ScoredRecord(CompletedSake, CompletedPreferences, tasting_history).score
        /\ result[1].sweetness = CompletedSake.sweetness
        /\ result[1].acidity = CompletedSake.acidity
        /\ result[1].richness = CompletedSake.richness

\* an item with none of the four fields, scored for a profile without
\* acidity and richness
C19_Witness ==
    /\ pc = "score_done"
    /\ DOMAIN sake \cap {"sweetness", "acidity", "richness", "rating"} = {}
    /\ "sweetness" \in DOMAIN preferences
    /\ DOMAIN preferences \cap {"acidity", "richness"} = {}
    /\ Len(result) = 1

(***************************************************************************)
(* C16: match_reason is a non-empty string; it is the generic phrase       *)
(* exactly when neither the sweetness rule nor the category rule added a   *)
(* descriptor, and the generic phrase never comes with another descriptor. *)
(***************************************************************************)
SweetnessDescriptors == {"dry and crisp", "sweet and mellow", "well balanced"}

CategoryDescriptors == {"fragrant aroma", "rice umami"}

Fallback == "recommended pick"

Separator == ", "

SakeSweetness == IF "sweetness" \in DOMAIN sake THEN sake.sweetness ELSE 3

SakeCategory == IF "category" \in DOMAIN sake THEN sake.category ELSE ""

SweetnessRule == Abs(PrefTaste("sweetness") - SakeSweetness) <= 1

CategoryRule == SakeCategory \in {"daiginjo", "junmai_daiginjo", "junmai"}

\* the texts made of descriptors alone, one or two of them
DescriptorTexts ==
    LET D == SweetnessDescriptors \cup CategoryDescriptors
    IN  D \cup {a \o Separator \o b : a \in D, b \in D}

C16_ReasonNeverEmpty ==
    pc = "reason_done" =>
        /\ value # ""
        /\ value = Fallback <=> (~SweetnessRule /\ ~CategoryRule)
        /\ value # Fallback => value \in DescriptorTexts

\* neither rule applies and the generic phrase is given
C16_Witness ==
    /\ pc = "reason_done"
    /\ ~SweetnessRule
    /\ SakeCategory = "ginjo"
    /\ value = Fallback

(***************************************************************************)
(* C17: a sweetness descriptor is added iff the two sweetness values       *)
(* differ by at most 1: dry for an item sweetness <= 2, sweet for >= 4,    *)
(* balanced for 3; the aroma descriptor iff the category is daiginjo or    *)
(* junmai_daiginjo, the umami one iff it is junmai; at most two            *)
(* descriptors, the sweetness one first, joined by the separator.          *)
(***************************************************************************)
\* the text holds descriptor d
Has(d) ==
    \/ value = d
    \/ \E x \in SweetnessDescriptors \cup CategoryDescriptors :
          value = d \o Separator \o x \/ value = x \o Separator \o d

C17_ReasonRules ==
    (pc = "reason_done" /\ "sweetness" \in DOMAIN sake
                        /\ "sweetness" \in DOMAIN preferences) =>
        LET close == Abs(preferences.sweetness - sake.sweetness) <= 1
        IN  /\ Has("dry and crisp") <=> (close /\ sake.sweetness <= 2)
            /\ Has("sweet and mellow") <=> (close /\ sake.sweetness >= 4)
            /\ Has("well balanced") <=> (close /\ sake.sweetness = 3)
            /\ Has("fragrant aroma")
                  <=> SakeCategory \in {"daiginjo", "junmai_daiginjo"}
            /\ Has("rice umami") <=> SakeCategory = "junmai"
            /\ value \in {Fallback} \cup SweetnessDescriptors \cup CategoryDescriptors
                         \cup {a \o Separator \o b :
                                  a \in SweetnessDescriptors, b \in CategoryDescriptors}

\* two descriptors: the sweetness values differ by exactly 1, and a daiginjo
C17_Witness ==
    /\ pc = "reason_done"
    /\ "sweetness" \in DOMAIN sake
    /\ "sweetness" \in DOMAIN preferences
    /\ Abs(preferences.sweetness - sake.sweetness) = 1
    /\ value = "sweet and mellow, fragrant aroma"

(***************************************************************************)
(* C18: an empty catalog, or one whose every item is removed by the        *)
(* budget, category or history filter, gives an empty list.                *)
(***************************************************************************)
C18_EmptyWhenNothingEligible ==
    (Called /\ Eligible = {}) => result = <<>>

\* the history holds the sake_id of the only item of the catalog
C18_Witness ==
    /\ pc = "returned"
    /\ Cardinality(sake_table) = 1
    /\ \A s \in sake_table : s.sake_id \in TastedIds
    /\ Eligible = {}
    /\ result = <<>>

(***************************************************************************)
(* C20: a limit that is not a positive integer (-1, 0) is answered with    *)
(* status 400 by the recommendation handler, for every request, also one   *)
(* with a user_id and valid preferences; it never yields a 200 with a      *)
(* shortened or empty list.                                                *)
(***************************************************************************)
C20_BadLimitRejected ==
    (pc = "responded" /\ "limit" \in DOMAIN event.body /\ event.body.limit <= 0) =>
        response.statusCode = 400

(***************************************************************************)
(* C21: the handler passes min(requested limit, 50) to recommend, 10 when  *)
(* the request has no limit, so a successful response never holds more     *)
(* than 50 recommendations.                                                *)
(***************************************************************************)
Succeeded == pc = "responded" /\ response.statusCode = 200

LimitPassedIsClamped ==
    Succeeded =>
        limit = (IF "limit" \notin DOMAIN event.body THEN 10
                 ELSE IF event.body.limit > 50 THEN 50
                 ELSE event.body.limit)

C21_AtMost50 ==
    /\ LimitPassedIsClamped
    /\ Succeeded => Len(response.data.recommendations) <= 50

(***************************************************************************)
(* C22: a request with no user_id in the body and none in the authorizer   *)
(* context is answered with status 400, error BadRequest and a message     *)
(* naming user_id, and neither the tasting history nor the catalog is      *)
(* read.                                                                   *)
(***************************************************************************)
Responded == pc = "responded"

NoUserId ==
    /\ "user_id" \notin DOMAIN event.body
    /\ "user_id" \notin DOMAIN event.authorizer

UserIdButNoPreferences ==
    /\ "user_id" \in DOMAIN event.body
    /\ ~Falsy(event.body.user_id)
    /\ "preferences" \notin DOMAIN event.body

C23_ServedWithoutPreferences ==
    (Responded /\ UserIdButNoPreferences) =>
        /\ response.statusCode = 200
        /\ "data" \in DOMAIN response
        /\ "recommendations" \in DOMAIN response.data

Scored(scan) == scored_sake(scan, preferences, tasting_history)

Pairs(recs) == {<<recs[i].sake_id, recs[i].score>> : i \in 1..Len(recs)}

DistinctIn(recs) ==
    \A i, j \in 1..Len(recs) : recs[i].score = recs[j].score => i = j

DistinctScores == DistinctIn(Scored(all_sake))

C25_IndependentScoring ==
    Called =>
        \A scored \in {Scored(all_sake)} :
            /\ \A i \in 1..Len(all_sake) :
                   Range(Scored(<<all_sake[i]>>)) =
                       {r \in Range(scored) : r.sake_id = all_sake[i].sake_id}
            /\ Pairs(scored) = UNION {Pairs(Scored(<<s>>)) : s \in sake_table}
            /\ (pc = "repeated" /\ DistinctIn(scored)) => result = previous

\* a repeated call: three candidates with distinct scores, cut by the
\* limit, the best of them not scanned first
C25_Witness ==
    /\ pc = "repeated"
    /\ Len(Scored(all_sake)) >= 3
    /\ DistinctScores
    /\ Len(result) = limit
    /\ result[1].sake_id # all_sake[1].sake_id

(***************************************************************************)
(* C26: ties are resolved by sort stability over catalog order.  Two       *)
(* returned records with equal (rounded) score stand in the order their    *)
(* items have in the catalog as scanned, and when a tie straddles the      *)
(* cut-off the item earlier in the catalog is the one returned.            *)
(***************************************************************************)
CatalogPosition(id) == CHOOSE k \in 1..Len(all_sake) : all_sake[k].sake_id = id

\* scored candidates left out of the result
CutOff == {r \in Range(Scored(all_sake)) : r.sake_id \notin Ids(result)}

C26_StableTies ==
    Called =>
        /\ \A i, j \in 1..Len(result) :
               (i < j /\ result[i].score = result[j].score) =>
                   CatalogPosition(result[i].sake_id)
                       < CatalogPosition(result[j].sake_id)
        /\ \A cut \in {CutOff} : \A i \in 1..Len(result) : \A r \in cut :
               result[i].score = r.score =>
                   CatalogPosition(result[i].sake_id) < CatalogPosition(r.sake_id)

\* a tie across the cut-off: of two sake with the same score one is
\* returned, the other is not
C26_Witness ==
    /\ Called
    /\ result # <<>>
    /\ \E r \in CutOff : r.score = result[Len(result)].score

\* a tie within the result
C26_TieReturned ==
    /\ Called
    /\ Len(result) >= 2
    /\ result[1].score = result[2].score
    /\ Len(all_sake) >= 3

(***************************************************************************)
(* C27: a handler wrapped by handle_errors never propagates an exception   *)
(* (an instance of Exception): whatever it raises, the wrapper returns a   *)
(* response with status 400, 403, 404 or 500.  ValidationError, KeyError   *)
(* and ValueError give 400; a ClientError gives 404 for                    *)
(* ResourceNotFoundException, 403 for AccessDeniedException and            *)
(* UnauthorizedException, 400 for ValidationException and                  *)
(* InvalidParameterException, 500 for any other code; every other          *)
(* exception gives 500.  A response of a handler that raises nothing is    *)
(* returned unchanged.                                                     *)
(***************************************************************************)
ExpectedStatus(e) ==
    IF e.class = "ClientError"
    THEN CASE e.code = "ResourceNotFoundException" -> 404
           [] e.code \in {"AccessDeniedException", "UnauthorizedException"} -> 403
           [] e.code \in {"ValidationException", "InvalidParameterException"} -> 400
           [] OTHER -> 500
    ELSE IF e.class \in {"ValidationError", "KeyError", "ValueError",
                         "JSONDecodeError"}
    THEN 400
    ELSE 500

C27_ErrorsMapped ==
    (pc = "wrapped") =>
        /\ "statusCode" \in DOMAIN response
        /\ raised = NoException => response = result
        /\ raised # NoException =>
               /\ response.statusCode \in {400, 403, 404, 500}
               /\ response.statusCode = ExpectedStatus(raised)

\* a KeyError was raised and answered
C27_Witness ==
    /\ pc = "wrapped"
    /\ raised # NoException
    /\ raised.class = "KeyError"
    /\ response.statusCode = 400
    /\ response.error = "BadRequest"

(***************************************************************************)
(* C28: data-acquisition failures degrade instead of failing.  If the scan *)
(* of the catalog raises, recommend returns an empty list and nothing is   *)
(* raised; if the query of the tasting history raises, the handler still   *)
(* answers 200, the recommendations being computed against an empty        *)
(* history: no sake is excluded as tasted and every item is scored with    *)
(* Diversity 100.                                                          *)
(***************************************************************************)
ScanFailed == Responded /\ Len(table_calls) = 2 /\ ~table_calls[2].ok

QueryFailed == Responded /\ Len(table_calls) = 2 /\ ~table_calls[1].ok

ItemOf(id) == CHOOSE s \in sake_table : s.sake_id = id

C28_FailuresDegrade ==
    /\ ScanFailed =>
           /\ raised = NoException
           /\ result = <<>>
           /\ response.statusCode = 200
           /\ response.data.recommendations = <<>>
    /\ QueryFailed =>
           /\ raised = NoException
           /\ response.statusCode = 200
           /\ response.data.recommendations = result
           /\ tasting_history = <<>>
           /\ ~ScanFailed =>
                  /\ Ids(Scored(all_sake)) =
                         {s.sake_id : s \in {t \in sake_table :
                                                WithinBudget(t) /\ CategoryAllowed(t)}}
                  /\ \A i \in 1..Len(result) :
                         /\ _calculate_diversity_score(ItemOf(result[i].sake_id),
                                                       tasting_history) = Pt(100)
                         /\ result[i].score =
                                Round2(_calculate_score(ItemOf(result[i].sake_id),
                                                        preferences, <<>>))

\* the query failed, the scan did not, and sake were recommended
C28_Witness ==
    /\ QueryFailed
    /\ ~ScanFailed
    /\ Len(result) >= 2
    /\ response.statusCode = 200

\* the scan failed on a table with sake
C28_ScanFailedOnTable ==
    /\ ScanFailed
    /\ ~QueryFailed
    /\ sake_table # {}
    /\ tasting_history # <<>>
    /\ response.statusCode = 200

(***************************************************************************)
(* C29: the budget filter is applied only when the budget is truthy.  A    *)
(* profile whose budget is absent, null or 0 excludes no item by price     *)
(* (with budget 0, items with price > 0 are still returned), and an item   *)
(* with no price field counts as price 0 and passes every budget (a        *)
(* budget being a positive amount).                                        *)
(***************************************************************************)
BudgetFalsy ==
    \/ "budget" \notin DOMAIN preferences
    \/ preferences.budget = NullAmount
    \/ preferences.budget = 0

\* the items neither tasted nor of a category the profile leaves out
PassOtherFilters ==
    {s \in sake_table : CategoryAllowed(s) /\ s.sake_id \notin TastedIds}

C29_BudgetOnlyWhenTruthy ==
    Called =>
        \A candidates \in {Ids(Scored(all_sake))} :
            /\ BudgetFalsy =>
                   /\ candidates = {s.sake_id : s \in PassOtherFilters}
                   /\ Len(result) = Min(limit, Cardinality(PassOtherFilters))
            /\ \A s \in PassOtherFilters :
                   "price" \notin DOMAIN s => s.sake_id \in candidates

\* budget 0, and a sake with a price above 0 returned
C29_Witness ==
    /\ Called
    /\ "budget" \in DOMAIN preferences
    /\ preferences.budget = 0
    /\ \E i \in 1..Len(result) : result[i].price > 0

\* budget null, and a sake with a price returned
C29_NullBudget ==
    /\ Called
    /\ "budget" \in DOMAIN preferences
    /\ preferences.budget = NullAmount
    /\ \E i \in 1..Len(result) : result[i].price > 0

\* a sake without a price returned under a budget of 1000
C29_NoPriceUnderBudget ==
    /\ Called
    /\ "budget" \in DOMAIN preferences
    /\ preferences.budget = 1000
    /\ \E i \in 1..Len(result) : "price" \notin DOMAIN ItemOf(result[i].sake_id)

(***************************************************************************)
(* C30: a tasting record created by a POST from an authenticated user is   *)
(* stored under that user's id with the record_id the server generated:    *)
(* whenever the authorizer's user_id is A, the item put in the tasting     *)
(* table has user_id = A and a record_id of R followed by 12 hex digits,   *)
(* whatever user_id or record_id the body contains.                        *)
(***************************************************************************)
Stored ==
    {table_calls[i].Item : i \in {k \in 1..Len(table_calls) :
                                      /\ table_calls[k].op = "put_item"
                                      /\ table_calls[k].ok}}

C30_StoredUnderCaller ==
    (pc = "created" /\ "user_id" \in DOMAIN event.authorizer) =>
        \A item \in Stored :
            /\ item.user_id = event.authorizer.user_id
            /\ item.record_id \in {"R" \o hex : hex \in UuidHex}

====
